---- MODULE Spec2Model ----
(***************************************************************************)
(* NodeXMLExporter (src/NodeXmlExporter.py): the OPC UA client that walks  *)
(* the hierarchical children of the server's address space, collects the  *)
(* nodes in self.nodes, prints per-namespace statistics and hands the      *)
(* (optionally filtered) node list to the XML serializer.                  *)
(*                                                                         *)
(* Three specifications share the same actions:                            *)
(*   Spec        main(): import_nodes, statistics, export_xml, disconnect  *)
(*   SpecApi     a caller invoking the public methods in any order         *)
(*   SpecBrowse  one start_node_browse(root) on a fresh exporter, under    *)
(*               the weak fairness of the single asyncio task              *)
(***************************************************************************)
EXTENDS Integers, Sequences, FiniteSets, TLC

VARIABLES
    mode,             \* "main": driven by main(); "api": methods called by a client
    pc,               \* position of the single asyncio task
    calls,            \* number of public method calls issued so far
    op,               \* the public method running or last run ("" before the first)
    started,          \* the public methods started so far
    nodes,            \* self.nodes
    namespaces,       \* self.namespaces: ordinal -> URI, NoEntry where the dict has no key
    visited,          \* self.visited
    client,           \* self.client: "none", "created", "connected", "disconnected"
    children,         \* the server's hierarchical-child lists, as far as browsed
    stack,            \* the frames of iterater_over_child_nodes in progress
    browseRoot,       \* rootnode of the current or last start_node_browse (0: none)
    getChildrenCalls, \* get_children calls issued by the current or last start_node_browse
    nodesAtCall,      \* self.nodes when the current or last public method was called
    idx,              \* statistics: loop index (next position of self.nodes to read)
    nodecount,        \* statistics: nodecount
    typecounts,       \* statistics: typecounts_per_namespace, in dict insertion order
    failedReads,      \* statistics: positions whose read_node_class raised
    report,           \* statistics: the lines logged by the report, and the total
    exportFilter,     \* export_xml: the namespaces argument
    exported,         \* export_xml: the node list handed to XmlExporter.build_etree
    error,            \* the exception that ended the run ("" while none)
    errorLogged,      \* import_nodes logged the connection error
    exitStatus        \* the process exit status (-1 while running)

vars == <<mode, pc, calls, op, started, nodes, namespaces, visited, client, children, stack,
          browseRoot, getChildrenCalls, nodesAtCall, idx, nodecount, typecounts,
          failedReads, report, exportFilter, exported, error, errorLogged,
          exitStatus>>

----------------------------------------------------------------------------
(* Bounds of the server and of the client.                                 *)

MaxNodes == 3
MaxEdges == 3
NsCount == 2
MaxCalls == 2

----------------------------------------------------------------------------
(* The server: node identities, namespace array, node classes.             *)

Nodes == 1..MaxNodes

\* client.get_root_node()
Root == 1

Ordinals == 0..(NsCount - 1)

\* node.nodeid.NamespaceIndex: the identities of the server are spread over its
\* namespaces, the root in namespace 0.
NamespaceIndex(n) == (n - 1) % NsCount

\* The label read_node_class answers for a node when the read succeeds.
NodeClassOf(n) == IF n % 2 = 1 THEN "NodeClass.Object" ELSE "NodeClass.Variable"

\* client.get_namespace_array(): one URI per ordinal.
NamespaceUri(k) == <<"urn:ns", k>>

NamespaceArray == [i \in 1..NsCount |-> NamespaceUri(i - 1)]

\* client.get_namespace_index(uri): the first ordinal that carries the URI.
GetNamespaceIndex(uri) ==
    (CHOOSE i \in 1..NsCount :
        /\ NamespaceArray[i] = uri
        /\ \A j \in 1..(i - 1) : NamespaceArray[j] # uri) - 1

NoEntry == <<"no entry">>

Unknown == <<0>>

Range(s) == {s[i] : i \in 1..Len(s)}

SeqsUpTo(S, k) == UNION {[1..m -> S] : m \in 0..k}

RECURSIVE SumLen(_, _)
SumLen(f, S) ==
    IF S = {} THEN 0
    ELSE LET n == CHOOSE x \in S : TRUE
         IN (IF f[n] = Unknown THEN 0 ELSE Len(f[n])) + SumLen(f, S \ {n})

\* The hierarchical references the server has not yet shown are bounded in number.
EdgesLeft == MaxEdges - SumLen(children, Nodes)

\* node.get_children(refs=33): the server's list for the node; the address
\* space does not change during the run, so a node browsed again answers the same.
GetChildren(n) ==
    IF children[n] # Unknown THEN {children[n]} ELSE SeqsUpTo(Nodes, EdgesLeft)

----------------------------------------------------------------------------
(* Construction.                                                           *)

NoFilter == [given |-> FALSE, ns |-> {}]
NotExported == [called |-> FALSE, list |-> <<>>]
NoReport == [lines |-> <<>>, total |-> -1]

\* NodeXMLExporter.__init__
ExporterInit ==
    /\ nodes = <<>>
    /\ namespaces = [k \in Ordinals |-> NoEntry]
    /\ visited = <<>>
    /\ client = "none"

RunInit ==
    /\ ExporterInit
    /\ calls = 0
    /\ op = ""
    /\ started = {}
    /\ children = [n \in Nodes |-> Unknown]
    /\ stack = <<>>
    /\ browseRoot = 0
    /\ getChildrenCalls = 0
    /\ nodesAtCall = <<>>
    /\ idx = 0
    /\ nodecount = 0
    /\ typecounts = <<>>
    /\ failedReads = {}
    /\ report = NoReport
    /\ exportFilter = NoFilter
    /\ exported = NotExported
    /\ error = ""
    /\ errorLogged = FALSE
    /\ exitStatus = -1

\* A client holding a fresh exporter.
InitApi == RunInit /\ mode = "api" /\ pc = "idle"

\* Where the task continues when a public method returns.
Return(stage) == IF mode = "main" THEN stage ELSE "idle"

\* An exception nobody catches ends the task: asyncio.run re-raises it and the
\* interpreter exits with status 1.
Uncaught(kind) ==
    /\ error' = kind
    /\ pc' = "crashed"
    /\ exitStatus' = 1

callVars == <<calls, op, started, nodesAtCall>>
statsVars == <<idx, nodecount, typecounts, failedReads, report>>
exportVars == <<exportFilter, exported>>
exporterVars == <<namespaces, visited, client>>

\* A public method of the exporter is entered.
Call(name) ==
    /\ op' = name
    /\ started' = started \cup {name}
    /\ calls' = calls + 1
    /\ nodesAtCall' = nodes

\* The locals and the observations of a method describe its current or last
\* call: they are gone when another method is entered.
ForgetBrowse ==
    /\ browseRoot' = 0
    /\ getChildrenCalls' = 0
    /\ UNCHANGED <<children, stack>>

ForgetStats ==
    /\ idx' = 0
    /\ nodecount' = 0
    /\ typecounts' = <<>>
    /\ failedReads' = {}
    /\ report' = [lines |-> <<>>, total |-> -1]

ForgetExport ==
    /\ exportFilter' = [given |-> FALSE, ns |-> {}]
    /\ exported' = [called |-> FALSE, list |-> <<>>]

----------------------------------------------------------------------------
(* start_node_browse / iterater_over_child_nodes.                          *)

\* Mutation: the children are taken last to first.
Frame_reversed(n, ch) ==
    [node |-> n, ch |-> [k \in 1..Len(ch) |-> ch[Len(ch) + 1 - k]], i |-> 1]

\* The for loop over the list get_children returned, at its first element.
Frame(n, ch) == [node |-> n, ch |-> ch, i |-> 1]

Top == stack[Len(stack)]

\* The loop of the running frame moves to the next child.
Advanced == [stack EXCEPT ![Len(stack)].i = @ + 1]

\* Mutation: the membership test looks only at the nodes whose expansion is
\* still in progress (the ancestors), not at everything collected.
Collected_ancestorsOnly(child) == \E k \in 1..Len(stack) : stack[k].node = child

\* Mutation: the membership test overlooks the root of the walk.
Collected_exceptRoot(child) == child \in Range(nodes) \ {browseRoot}

\* "child not in self.nodes", negated: the child is already collected.
Collected(child) == child \in Range(nodes)

\* iterater_over_child_nodes(node), up to the list get_children returns:
\* the node is appended, then its children are fetched.
Enter(n, below) ==
    /\ nodes' = Append(nodes, n)
    /\ getChildrenCalls' = getChildrenCalls + 1
    /\ \E ch \in GetChildren(n) :
        /\ children' = [children EXCEPT ![n] = ch]
        /\ stack' = Append(below, Frame(n, ch))
    /\ UNCHANGED <<pc, error, exitStatus>>

\* Mutation: the failure is caught around the walk, which returns to its caller
\* with what it has collected so far.
EnterFails_swallowed(n) ==
    /\ nodes' = Append(nodes, n)
    /\ getChildrenCalls' = getChildrenCalls + 1
    /\ stack' = <<>>
    /\ UNCHANGED <<children, exitStatus>>
    /\ error' = "get_children"
    /\ pc' = Return("statistics")

\* The same call when get_children raises: the node is already appended, and
\* the exception unwinds every frame, import_nodes and main included.
EnterFails(n) ==
    /\ nodes' = Append(nodes, n)
    /\ getChildrenCalls' = getChildrenCalls + 1
    /\ stack' = <<>>
    /\ UNCHANGED children
    /\ Uncaught("get_children")

\* start_node_browse(rootnode): the root is handed to iterater_over_child_nodes.
StartNodeBrowse(root) ==
    /\ browseRoot' = root
    /\ pc' = "browsing"
    /\ getChildrenCalls' = 0
    /\ stack' = <<>>
    /\ UNCHANGED <<nodes, children, error, exitStatus>>

AtRootCall == pc = "browsing" /\ stack = <<>> /\ getChildrenCalls = 0

AtChild == pc = "browsing" /\ stack # <<>> /\ Top.i <= Len(Top.ch)

BrowseRootEnter ==
    /\ AtRootCall
    /\ Enter(browseRoot, <<>>)
    /\ UNCHANGED <<mode, browseRoot, errorLogged>>
    /\ UNCHANGED <<callVars, exporterVars, statsVars, exportVars>>

BrowseRootFails ==
    /\ AtRootCall
    /\ EnterFails(browseRoot)
    /\ UNCHANGED <<mode, browseRoot, errorLogged>>
    /\ UNCHANGED <<callVars, exporterVars, statsVars, exportVars>>

\* for child in ...: the child is in self.nodes, nothing is done for it.
IterSkip ==
    /\ AtChild
    /\ Collected(Top.ch[Top.i])
    /\ stack' = Advanced
    /\ UNCHANGED <<mode, pc, nodes, children, browseRoot, getChildrenCalls,
                   error, errorLogged, exitStatus>>
    /\ UNCHANGED <<callVars, exporterVars, statsVars, exportVars>>

\* for child in ...: the child is not in self.nodes, the walk descends into it.
IterRecurse ==
    /\ AtChild
    /\ ~Collected(Top.ch[Top.i])
    /\ Enter(Top.ch[Top.i], Advanced)
    /\ UNCHANGED <<mode, browseRoot, errorLogged>>
    /\ UNCHANGED <<callVars, exporterVars, statsVars, exportVars>>

IterRecurseFails ==
    /\ AtChild
    /\ ~Collected(Top.ch[Top.i])
    /\ EnterFails(Top.ch[Top.i])
    /\ UNCHANGED <<mode, browseRoot, errorLogged>>
    /\ UNCHANGED <<callVars, exporterVars, statsVars, exportVars>>

\* The for loop is exhausted: the call returns to the frame below, and the
\* root's call returns through start_node_browse to its caller.
IterReturn ==
    /\ pc = "browsing" /\ stack # <<>>
    /\ Top.i > Len(Top.ch)
    /\ stack' = SubSeq(stack, 1, Len(stack) - 1)
    /\ pc' = IF Len(stack) = 1 THEN Return("statistics") ELSE pc
    /\ UNCHANGED <<mode, nodes, children, browseRoot, getChildrenCalls,
                   error, errorLogged, exitStatus>>
    /\ UNCHANGED <<callVars, exporterVars, statsVars, exportVars>>

----------------------------------------------------------------------------
(* statistics.                                                             *)

\* typecounts_per_namespace is a dict of dicts; both keep insertion order, so
\* it is a sequence of [ns, types], types a sequence of [label, count].
NsPos(tc, ns) ==
    IF \E k \in 1..Len(tc) : tc[k].ns = ns
    THEN CHOOSE k \in 1..Len(tc) : tc[k].ns = ns
    ELSE 0

LabelPos(types, label) ==
    IF \E k \in 1..Len(types) : types[k].label = label
    THEN CHOOSE k \in 1..Len(types) : types[k].label = label
    ELSE 0

\* The body of the try block once read_node_class has answered.
Bump(tc, ns, label) ==
    LET tc1 == IF NsPos(tc, ns) = 0
               THEN Append(tc, [ns |-> ns, types |-> <<>>])
               ELSE tc
        k == NsPos(tc1, ns)
        types == tc1[k].types
        j == LabelPos(types, label)
        types1 == IF j = 0
                  THEN Append(types, [label |-> label, count |-> 1])
                  ELSE [types EXCEPT ![j].count = @ + 1]
    IN [tc1 EXCEPT ![k].types = types1]

\* Mutation: the URI is looked up with a default, no key is ever missing.
Unresolved_none(tc) == 0

\* The first entry of the table whose namespace self.namespaces has no key
\* for (0 when every one has): self.namespaces[ns] raises KeyError there.
Unresolved(tc) ==
    IF \E k \in 1..Len(tc) : namespaces[tc[k].ns] = NoEntry
    THEN CHOOSE k \in 1..Len(tc) :
            /\ namespaces[tc[k].ns] = NoEntry
            /\ \A j \in 1..(k - 1) : namespaces[tc[j].ns] # NoEntry
    ELSE 0

\* The lines logged for one namespace: its header, then one line per type.
NsLines(e) ==
    <<[kind |-> "NS", ns |-> e.ns, uri |-> namespaces[e.ns], label |-> "", count |-> 0]>>
    \o [j \in 1..Len(e.types) |->
          [kind |-> "TYPE", ns |-> e.ns, uri |-> namespaces[e.ns],
           label |-> e.types[j].label, count |-> e.types[j].count]]

\* The lines logged for the first k namespaces of the table.
RECURSIVE ReportLines(_, _)
ReportLines(tc, k) ==
    IF k = 0 THEN <<>> ELSE ReportLines(tc, k - 1) \o NsLines(tc[k])

\* Mutation: the total counts only the nodes whose class was read.
ReportTotal_classified == Len(nodes) - Cardinality(failedReads)

\* "TOTAL in namespace: %d" % len(self.nodes)
ReportTotal == Len(nodes)

StatisticsStart ==
    /\ pc' = "stats_loop"
    /\ nodecount' = Len(nodes)
    /\ idx' = 1
    /\ typecounts' = <<>>
    /\ failedReads' = {}
    /\ report' = NoReport

\* One turn of the loop, read_node_class answering.
StatisticsReadOk ==
    /\ pc = "stats_loop" /\ idx <= nodecount
    /\ typecounts' = Bump(typecounts, NamespaceIndex(nodes[idx]), NodeClassOf(nodes[idx]))
    /\ idx' = idx + 1
    /\ UNCHANGED <<mode, pc, nodes, children, stack, browseRoot, getChildrenCalls,
                   nodecount, failedReads, report, error, errorLogged, exitStatus>>
    /\ UNCHANGED <<callVars, exporterVars, exportVars>>

\* One turn of the loop, read_node_class raising: logged, the loop goes on.
StatisticsReadFails ==
    /\ pc = "stats_loop" /\ idx <= nodecount
    /\ failedReads' = failedReads \cup {idx}
    /\ idx' = idx + 1
    /\ UNCHANGED <<mode, pc, nodes, children, stack, browseRoot, getChildrenCalls,
                   nodecount, typecounts, report, error, errorLogged, exitStatus>>
    /\ UNCHANGED <<callVars, exporterVars, exportVars>>

\* After the loop: every namespace of the table has its URI, the report and the
\* total are logged and statistics returns.
StatisticsReport ==
    /\ pc = "stats_loop" /\ idx > nodecount
    /\ Unresolved(typecounts) = 0
    /\ report' = [lines |-> ReportLines(typecounts, Len(typecounts)),
                  total |-> ReportTotal]
    /\ pc' = Return("export")
    /\ UNCHANGED <<mode, nodes, children, stack, browseRoot, getChildrenCalls,
                   idx, nodecount, typecounts, failedReads, error, errorLogged,
                   exitStatus>>
    /\ UNCHANGED <<callVars, exporterVars, exportVars>>

\* After the loop: self.namespaces[ns] raises KeyError at the first namespace
\* without a key; the namespaces before it are logged, the total is not.
StatisticsKeyError ==
    /\ pc = "stats_loop" /\ idx > nodecount
    /\ Unresolved(typecounts) # 0
    /\ report' = [lines |-> ReportLines(typecounts, Unresolved(typecounts) - 1),
                  total |-> -1]
    /\ Uncaught("KeyError")
    /\ UNCHANGED <<mode, nodes, children, stack, browseRoot, getChildrenCalls,
                   idx, nodecount, typecounts, failedReads, errorLogged>>
    /\ UNCHANGED <<callVars, exporterVars, exportVars>>

----------------------------------------------------------------------------
(* export_xml.                                                             *)

\* "if namespaces:": None and the empty list are both false.
Truthy(filter) == filter.given /\ filter.ns # {}

\* Mutation: the comprehension runs whether or not namespaces are given.
ExportSelect_alwaysFilter(inventory, filter) ==
    SelectSeq(inventory, LAMBDA n : NamespaceIndex(n) \in filter.ns)

\* The list named nodes in export_xml.
ExportSelect(inventory, filter) ==
    IF Truthy(filter)
    THEN SelectSeq(inventory, LAMBDA n : NamespaceIndex(n) \in filter.ns)
    ELSE inventory

\* export_xml, the serializer building and writing the document.
ExportXml(filter) ==
    /\ exportFilter' = filter
    /\ exported' = [called |-> TRUE, list |-> ExportSelect(nodes, filter)]
    /\ pc' = Return("disconnect")
    /\ UNCHANGED <<error, exitStatus>>

\* export_xml, build_etree or write_xml raising.
ExportXmlFails(filter) ==
    /\ exportFilter' = filter
    /\ exported' = [called |-> TRUE, list |-> ExportSelect(nodes, filter)]
    /\ Uncaught("XmlExporter")

\* namespaces=None, or a list of ordinals (empty or not).
NoneFilter == {NoFilter}
ListFilters(sets) == {[given |-> TRUE, ns |-> S] : S \in sets}

\* args.namespaces: None without -n, else the appended ordinals (at least one).
CliFilters == NoneFilter \cup ListFilters(SUBSET Ordinals \ {{}})

\* What a caller of export_xml can pass.
ApiFilters == NoneFilter \cup ListFilters(SUBSET Ordinals)

----------------------------------------------------------------------------
(* import_nodes.                                                           *)

browseVars == <<children, stack, browseRoot, getChildrenCalls>>

\* sys.exit() without an argument: SystemExit(None), exit status 0.
SysExitNoArg == 0

\* Client(server_url), set_user, set_password and, with security, set_security.
ImportNodesBegin ==
    /\ client' = "created"
    /\ pc' = "connect"
    /\ UNCHANGED <<nodes, namespaces, visited, error, errorLogged, exitStatus>>

\* With security: cert.der cannot be read or parsed, or set_security raises;
\* this is outside the try block.
ImportSecurityFails ==
    /\ pc = "connect"
    /\ Uncaught("security")
    /\ UNCHANGED <<mode, nodes, errorLogged>>
    /\ UNCHANGED <<callVars, exporterVars, browseVars, statsVars, exportVars>>

\* await self.client.connect() succeeds.
ConnectOk ==
    /\ pc = "connect"
    /\ client' = "connected"
    /\ pc' = "namespaces"
    /\ UNCHANGED <<mode, nodes, namespaces, visited, error, errorLogged, exitStatus>>
    /\ UNCHANGED <<callVars, browseVars, statsVars, exportVars>>

\* await self.client.connect() raises: the error is logged and sys.exit() called.
ConnectFails ==
    /\ pc = "connect"
    /\ errorLogged' = TRUE
    /\ error' = "SystemExit"
    /\ pc' = "exited"
    /\ exitStatus' = SysExitNoArg
    /\ UNCHANGED <<mode, nodes>>
    /\ UNCHANGED <<callVars, exporterVars, browseVars, statsVars, exportVars>>

\* self.namespaces after the first k URIs of the namespace array are entered
\* under the ordinal get_namespace_index answers for each.
NamespacesAfter(k) ==
    [o \in Ordinals |->
        IF \E i \in 1..k : GetNamespaceIndex(NamespaceArray[i]) = o
        THEN NamespaceArray[CHOOSE i \in 1..k :
                /\ GetNamespaceIndex(NamespaceArray[i]) = o
                /\ \A j \in (i + 1)..k : GetNamespaceIndex(NamespaceArray[j]) # o]
        ELSE namespaces[o]]

\* The namespace loop runs through; root = self.client.get_root_node().
BuildNamespaceIndex ==
    /\ pc = "namespaces"
    /\ namespaces' = NamespacesAfter(NsCount)
    /\ pc' = "browse_root"
    /\ UNCHANGED <<mode, nodes, visited, client, error, errorLogged, exitStatus>>
    /\ UNCHANGED <<callVars, browseVars, statsVars, exportVars>>

\* get_namespace_array raises (k = 0), or get_namespace_index does at the
\* URI after the k-th.
NamespaceLookupFails ==
    /\ pc = "namespaces"
    /\ \E k \in 0..(NsCount - 1) : namespaces' = NamespacesAfter(k)
    /\ Uncaught("namespace lookup")
    /\ UNCHANGED <<mode, nodes, visited, client, errorLogged>>
    /\ UNCHANGED <<callVars, browseVars, statsVars, exportVars>>

\* await self.start_node_browse(root)
ImportStartBrowse ==
    /\ pc = "browse_root"
    /\ StartNodeBrowse(Root)
    /\ UNCHANGED <<mode, errorLogged>>
    /\ UNCHANGED <<callVars, exporterVars, statsVars, exportVars>>

----------------------------------------------------------------------------
(* main().                                                                 *)

InitMain == RunInit /\ mode = "main" /\ pc = "import_nodes"

MainImportNodes ==
    /\ mode = "main" /\ pc = "import_nodes"
    /\ Call("import_nodes")
    /\ ImportNodesBegin
    /\ UNCHANGED <<mode>>
    /\ ForgetBrowse /\ ForgetStats /\ ForgetExport

MainStatistics ==
    /\ mode = "main" /\ pc = "statistics"
    /\ Call("statistics")
    /\ StatisticsStart
    /\ UNCHANGED <<mode, nodes, error, errorLogged, exitStatus>>
    /\ ForgetBrowse /\ ForgetExport
    /\ UNCHANGED exporterVars

MainExportXml ==
    /\ mode = "main" /\ pc = "export"
    /\ Call("export_xml")
    /\ \E filter \in CliFilters : ExportXml(filter)
    /\ UNCHANGED <<mode, nodes, errorLogged>>
    /\ ForgetBrowse /\ ForgetStats
    /\ UNCHANGED exporterVars

MainExportXmlFails ==
    /\ mode = "main" /\ pc = "export"
    /\ Call("export_xml")
    /\ \E filter \in CliFilters : ExportXmlFails(filter)
    /\ UNCHANGED <<mode, nodes, errorLogged>>
    /\ ForgetBrowse /\ ForgetStats
    /\ UNCHANGED exporterVars

\* await exporter.client.disconnect(), and main returns.
MainDisconnect ==
    /\ mode = "main" /\ pc = "disconnect"
    /\ client' = "disconnected"
    /\ pc' = "done"
    /\ exitStatus' = 0
    /\ UNCHANGED <<mode, nodes, namespaces, visited, error, errorLogged>>
    /\ UNCHANGED <<callVars, browseVars, statsVars, exportVars>>

MainDisconnectFails ==
    /\ mode = "main" /\ pc = "disconnect"
    /\ Uncaught("disconnect")
    /\ UNCHANGED <<mode, nodes, errorLogged>>
    /\ UNCHANGED <<callVars, exporterVars, browseVars, statsVars, exportVars>>

\* self.namespaces[ns] cannot raise in this run: import_nodes has entered every
\* ordinal of the server's namespace array before the walk, and the nodes of
\* the server carry those ordinals.
Next ==
    \/ MainImportNodes
    \/ ImportSecurityFails
    \/ ConnectOk
    \/ ConnectFails
    \/ BuildNamespaceIndex
    \/ NamespaceLookupFails
    \/ ImportStartBrowse
    \/ BrowseRootEnter
    \/ BrowseRootFails
    \/ IterSkip
    \/ IterRecurse
    \/ IterRecurseFails
    \/ IterReturn
    \/ MainStatistics
    \/ StatisticsReadOk
    \/ StatisticsReadFails
    \/ StatisticsReport
    \/ MainExportXml
    \/ MainExportXmlFails
    \/ MainDisconnect
    \/ MainDisconnectFails

Spec == InitMain /\ [][Next]_vars

----------------------------------------------------------------------------
(* A caller of the class: the public methods in any order.                 *)

CanCall == mode = "api" /\ pc = "idle" /\ calls < MaxCalls

\* start_node_browse(root) for a root among the given nodes.
ApiStartNodeBrowse(roots) ==
    /\ CanCall
    /\ Call("start_node_browse")
    /\ \E root \in roots : StartNodeBrowse(root)
    /\ UNCHANGED <<mode, errorLogged>>
    /\ ForgetStats /\ ForgetExport
    /\ UNCHANGED exporterVars

ApiImportNodes ==
    /\ CanCall
    /\ Call("import_nodes")
    /\ ImportNodesBegin
    /\ UNCHANGED <<mode>>
    /\ ForgetBrowse /\ ForgetStats /\ ForgetExport

ApiStatistics ==
    /\ CanCall
    /\ Call("statistics")
    /\ StatisticsStart
    /\ UNCHANGED <<mode, nodes, error, errorLogged, exitStatus>>
    /\ ForgetBrowse /\ ForgetExport
    /\ UNCHANGED exporterVars

ApiExportXml ==
    /\ CanCall
    /\ Call("export_xml")
    /\ \E filter \in ApiFilters : ExportXml(filter)
    /\ UNCHANGED <<mode, nodes, errorLogged>>
    /\ ForgetBrowse /\ ForgetStats
    /\ UNCHANGED exporterVars

ApiExportXmlFails ==
    /\ CanCall
    /\ Call("export_xml")
    /\ \E filter \in ApiFilters : ExportXmlFails(filter)
    /\ UNCHANGED <<mode, nodes, errorLogged>>
    /\ ForgetBrowse /\ ForgetStats
    /\ UNCHANGED exporterVars

\* The caller browses from the node client.get_root_node() answers.
NextApi ==
    \/ ApiStartNodeBrowse({Root})
    \/ ApiImportNodes
    \/ ApiStatistics
    \/ ApiExportXml
    \/ ApiExportXmlFails
    \/ ImportSecurityFails
    \/ ConnectOk
    \/ ConnectFails
    \/ BuildNamespaceIndex
    \/ NamespaceLookupFails
    \/ ImportStartBrowse
    \/ BrowseRootEnter
    \/ BrowseRootFails
    \/ IterSkip
    \/ IterRecurse
    \/ IterRecurseFails
    \/ IterReturn
    \/ StatisticsReadOk
    \/ StatisticsReadFails
    \/ StatisticsReport
    \/ StatisticsKeyError

SpecApi == InitApi /\ [][NextApi]_vars

----------------------------------------------------------------------------
(* One start_node_browse on a fresh exporter.                              *)

\* Any node of the server can be the root of the walk.
BrowseOnce == calls = 0 /\ ApiStartNodeBrowse(Nodes)

NextBrowse ==
    \/ BrowseOnce
    \/ BrowseRootEnter
    \/ BrowseRootFails
    \/ IterSkip
    \/ IterRecurse
    \/ IterRecurseFails
    \/ IterReturn

\* The single task runs whenever it can: no other task competes with it.
SpecBrowse == InitApi /\ [][NextBrowse]_vars /\ WF_vars(NextBrowse)

----------------------------------------------------------------------------
(* The hierarchical-child graph of the server, as the claims speak of it.  *)

\* The child list of a node; a node never browsed has shown none.
ChildrenOf(n) == IF children[n] = Unknown THEN <<>> ELSE children[n]

ChildSet(S) == UNION {Range(ChildrenOf(n)) : n \in S}

RECURSIVE Closure(_)
Closure(S) == IF ChildSet(S) \subseteq S THEN S ELSE Closure(S \cup ChildSet(S))

\* The nodes reachable from root through hierarchical children, root included.
Reachable(root) == Closure({root})

\* The nodes that lie on a cycle of hierarchical links (a self-loop included).
OnCycle(n) == n \in Closure(ChildSet({n}))

Count(s, x) == Cardinality({i \in 1..Len(s) : s[i] = x})

Parents(n) == {p \in Nodes : n \in Range(ChildrenOf(p))}

\* Pre-order depth-first sequence of the graph, as a function of the graph.
RECURSIVE Preorder(_, _), PreorderChildren(_, _, _)
Preorder(n, acc) == PreorderChildren(ChildrenOf(n), 1, Append(acc, n))
PreorderChildren(ch, i, acc) ==
    IF i > Len(ch) THEN acc
    ELSE PreorderChildren(ch, i + 1,
            IF ch[i] \in Range(acc) THEN acc ELSE Preorder(ch[i], acc))

\* start_node_browse, called once on a fresh exporter, has returned.
BrowseReturned ==
    /\ op = "start_node_browse" /\ calls = 1 /\ nodesAtCall = <<>>
    /\ pc = "idle"

\* ... or has been ended by a get_children failure.
BrowseEnded == op = "start_node_browse" /\ calls = 1 /\ pc \in {"idle", "crashed"}

----------------------------------------------------------------------------
(* Claims.                                                                 *)

\* C1: after start_node_browse(root) on a fresh exporter has completed,
\* self.nodes holds exactly the nodes reachable from root through
\* hierarchical children, each once: no identity twice, and as many entries
\* as there are reachable identities.
C1_InventoryIsReachableSetOnce ==
    BrowseReturned =>
        /\ Range(nodes) = Reachable(browseRoot)
        /\ \A n \in Nodes : Count(nodes, n) <= 1
        /\ Len(nodes) = Cardinality(Reachable(browseRoot))

\* A completed walk over a graph in which a node has two parents, both collected.
C1_Witness ==
    /\ BrowseReturned
    /\ Len(nodes) = MaxNodes
    /\ \E n \in Range(nodes) : Cardinality((Parents(n) \cap Range(nodes)) \ {n}) >= 2

\* C2: on a graph whose hierarchical links contain a cycle, start_node_browse
\* eventually ends; no node is expanded again while its own expansion is in
\* progress; and when the walk returns every node on a cycle that it can
\* reach is in self.nodes exactly once.
C2_CycleTerminatesOnce ==
    /\ <>BrowseEnded
    /\ [](\A i, j \in 1..Len(stack) : stack[i].node = stack[j].node => i = j)
    /\ [](BrowseReturned =>
            \A n \in Reachable(browseRoot) : OnCycle(n) => Count(nodes, n) = 1)

\* A completed walk over a graph with a self-loop and a cycle back to the root.
C2_Witness ==
    /\ BrowseReturned
    /\ \E n \in Range(nodes) : n \in Range(ChildrenOf(n))
    /\ \E n \in Range(nodes) \ {browseRoot} :
            browseRoot \in Range(ChildrenOf(n)) /\ OnCycle(browseRoot)

TraversalFailed == error = "get_children"

\* C3: once a get_children call has failed in main's run, the task is over
\* with the exception uncaught: no statistics, no export_xml, nothing handed
\* to the serializer; and from then on no get_children call is issued (no
\* retry) and no method is started.
C3_TraversalFailureAbortsRun ==
    /\ [](TraversalFailed =>
            /\ pc = "crashed" /\ exitStatus = 1
            /\ started = {"import_nodes"}
            /\ report.total = -1 /\ report.lines = <<>>
            /\ ~exported.called)
    /\ [][TraversalFailed =>
            /\ started' = started
            /\ getChildrenCalls' = getChildrenCalls
            /\ exported' = exported]_vars

\* A get_children failure below the root: the inventory is partly populated.
C3_Witness == mode = "main" /\ TraversalFailed /\ Len(nodes) >= 2

\* client.connect() has raised in import_nodes and sys.exit() was called.
ConnectFailed == op = "import_nodes" /\ pc = "exited"

\* C4: when client.connect() fails in import_nodes, the error is logged and
\* the process ends with a non-zero exit status, before any namespace
\* lookup, get_children call, statistics or export.
C4_ConnectFailureExitsNonZero ==
    ConnectFailed =>
        /\ errorLogged
        /\ exitStatus > 0
        /\ namespaces = [k \in Ordinals |-> NoEntry]
        /\ getChildrenCalls = 0 /\ nodes = <<>>
        /\ started = {"import_nodes"}
        /\ ~exported.called

RECURSIVE SumTypes(_, _), SumCounts(_, _)
SumTypes(types, k) == IF k = 0 THEN 0 ELSE types[k].count + SumTypes(types, k - 1)
SumCounts(tc, k) ==
    IF k = 0 THEN 0 ELSE SumTypes(tc[k].types, Len(tc[k].types)) + SumCounts(tc, k - 1)

RECURSIVE SumLines(_, _)
SumLines(lines, k) ==
    IF k = 0 THEN 0
    ELSE (IF lines[k].kind = "TYPE" THEN lines[k].count ELSE 0) + SumLines(lines, k - 1)

\* C5: in main's run, whichever read_node_class calls fail, statistics is not
\* aborted; when it has returned the loop has passed every position, the
\* logged total is the inventory size, and the counts of the table (and of
\* the logged type lines) sum to the inventory size minus the failed reads.
C5_StatisticsToleratesReadFailures ==
    op = "statistics" =>
        /\ error = ""
        /\ pc # "stats_loop" =>
            /\ idx = Len(nodes) + 1
            /\ report.total = Len(nodes)
            /\ SumCounts(typecounts, Len(typecounts)) = Len(nodes) - Cardinality(failedReads)
            /\ SumLines(report.lines, Len(report.lines)) = Len(nodes) - Cardinality(failedReads)

\* statistics has returned over three nodes, one of which could not be read.
C5_Witness ==
    /\ mode = "main" /\ op = "statistics" /\ pc = "export"
    /\ Len(nodes) = MaxNodes
    /\ Cardinality(failedReads) = 1

\* The sub-sequence of the inventory in the namespaces of a filter set.
InNamespaces(inventory, S) == SelectSeq(inventory, LAMBDA n : NamespaceIndex(n) \in S)

\* C6: with a list of ordinals as filter, the empty one included, export_xml
\* hands the serializer exactly the nodes of the inventory whose namespace
\* ordinal is in the list, in inventory order.
C6_FilterSetSelectsSubsequence ==
    (exported.called /\ exportFilter.given) =>
        exported.list = InNamespaces(nodes, exportFilter.ns)

\* C7: export_xml without namespaces hands the serializer self.nodes as it
\* is, and self.nodes is after the call what it was before.
C7_AllFilterExportsInventory ==
    (exported.called /\ ~exportFilter.given) =>
        /\ exported.list = nodes
        /\ nodes = nodesAtCall

\* export_xml without namespaces over an inventory of nodes from two namespaces.
C7_Witness ==
    /\ mode = "main" /\ exported.called /\ ~exportFilter.given
    /\ Len(nodes) = MaxNodes
    /\ \E i, j \in 1..Len(nodes) : NamespaceIndex(nodes[i]) # NamespaceIndex(nodes[j])

\* statistics has returned or raised.
StatisticsEnded == op = "statistics" /\ pc # "stats_loop"

\* self.namespaces is still empty, or has no entry for any node of the inventory.
IndexNotBuilt ==
    \/ \A o \in Ordinals : namespaces[o] = NoEntry
    \/ \A i \in 1..Len(nodes) : namespaces[NamespaceIndex(nodes[i])] = NoEntry

\* C8, as claimed: statistics requested before the namespace index is built
\* fails (the lookup error standing for NamespaceNotResolvedError) and emits
\* no report.
C8_StatisticsBeforeIndexFails ==
    (StatisticsEnded /\ IndexNotBuilt) =>
        /\ error = "KeyError"
        /\ report.total = -1 /\ report.lines = <<>>

\* A position of the inventory whose class was read and whose namespace
\* ordinal has no entry in self.namespaces.
ClassifiedUnresolved ==
    \E i \in (1..nodecount) \ failedReads : namespaces[NamespaceIndex(nodes[i])] = NoEntry

\* C8, amended: statistics fails, with KeyError and after the counting pass,
\* exactly when self.namespaces has no entry for the ordinal of some node
\* whose class was read, and then the total is never logged; otherwise (empty
\* inventory, every read failing, index built) it returns and logs the total.
C8_StatisticsFailsOnUnresolvedClassified ==
    StatisticsEnded =>
        IF ClassifiedUnresolved
        THEN error = "KeyError" /\ pc = "crashed" /\ report.total = -1
        ELSE error = "" /\ report.total = Len(nodes)

\* statistics after a walk without the namespace index, one read failing,
\* another succeeding: KeyError.
C8_Witness ==
    /\ StatisticsEnded /\ IndexNotBuilt
    /\ error = "KeyError"
    /\ failedReads # {} /\ Len(nodes) >= 2

\* C9: start_node_browse(root) for a root already collected returns at once:
\* nothing appended, no get_children call, self.nodes as it was.
C9_RebrowseIsNoOp ==
    (op = "start_node_browse" /\ browseRoot \in Range(nodesAtCall)) =>
        /\ nodes = nodesAtCall
        /\ getChildrenCalls = 0

====
